---- MODULE Spec2Model ----
(***************************************************************************)
(* A model of the query engine of zoom (src/util.go, second half: the      *)
(* former query.go) and of the registry it reads (src/model.go).           *)
(*                                                                         *)
(* Strings that the code only compares for equality (model names, field    *)
(* names, operators, error messages) are TLA+ strings.  Strings that the   *)
(* store sorts, concatenates or splits (ids, alpha values, alpha index     *)
(* members) are sequences of byte codes, compared as redis compares them   *)
(* (bytewise, a proper prefix first).                                      *)
(***************************************************************************)
EXTENDS Integers, Sequences, FiniteSets, TLC

VARIABLES
    typeToName,   \* model.go: var typeToName (type -> name)
    nameToType,   \* model.go: var nameToType (name -> type)
    modelSpecs,   \* model.go: var modelSpecs (name -> spec)
    db,           \* the redis database the queries read
    q,            \* the Query under construction (util.go: type Query)
    ret,          \* what the last call on q returned
    ev            \* the locals of the internal call in progress, when a
                  \* specification follows one call step by step

vars == <<typeToName, nameToType, modelSpecs, db, q, ret, ev>>

-----------------------------------------------------------------------------
(* Bounds of the model.                                                    *)

MaxFilters == 2      \* filters appended to one query
MaxLimit == 2        \* largest argument of Limit
MaxOffset == 1       \* largest argument of Offset
MaxFieldList == 2    \* length of q.includes / q.excludes
MaxPeople == 5       \* records saved in the database
MaxListLen == 3      \* length of the lists orderedIntersectStrings is called with
MaxAlphaPeople == 3  \* records in the alpha indexes of SpecAlpha
MaxClientPeople == 2 \* records the other clients of SpecConcurrent save
MaxValueLen == 3     \* length of the values extractModelIdFromAlphaIndexValue decodes
MaxIdLen == 2        \* length of the ids extractModelIdFromAlphaIndexValue decodes
MaxPlanPeople == 3   \* records in the numeric and boolean indexes of SpecPlan

-----------------------------------------------------------------------------
(* Byte strings.                                                           *)

SP == 32             \* " ", the separator of "<value> <id>"
DEL == 127           \* delString

delString == <<DEL>>

\* bytewise order of two strings (memcmp, then length), as redis orders the
\* members of a sorted set that have the same score
StrLess(s, t) ==
    \E k \in 1..Len(t) :
        /\ \A i \in 1..(k - 1) : i <= Len(s) /\ s[i] = t[i]
        /\ (k > Len(s) \/ s[k] < t[k])

Reverse(s) == [i \in 1..Len(s) |-> s[Len(s) + 1 - i]]

SeqToSet(s) == {s[i] : i \in 1..Len(s)}

Min2(a, b) == IF a < b THEN a ELSE b

\* all sequences without repetition of exactly k elements of S
RECURSIVE Arrangements(_, _)
Arrangements(S, k) ==
    IF k = 0 \/ S = {} THEN {<<>>}
    ELSE UNION {{<<x>> \o r : r \in Arrangements(S \ {x}, k - 1)} : x \in S}

-----------------------------------------------------------------------------
(* Redis commands on one key.  A sorted set is a set of [member, score]    *)
(* records with distinct members; its order is by score, then by member.   *)

ZLess(x, y) ==
    \/ x.score < y.score
    \/ (x.score = y.score /\ StrLess(x.member, y.member))

\* the members in rank order
ZSorted(z) ==
    [i \in 1..Cardinality(z) |->
        (CHOOSE x \in z : Cardinality({y \in z : ZLess(y, x)}) = i - 1).member]

\* ZRANGE / ZREVRANGE key start stop on the rank-ordered list s
RangeByRank(s, start, stop) ==
    LET n == Len(s)
        a0 == IF start < 0 THEN n + start ELSE start
        b0 == IF stop < 0 THEN n + stop ELSE stop
        a == IF a0 < 0 THEN 0 ELSE a0
        b == IF b0 >= n THEN n - 1 ELSE b0
    IN  IF a > b \/ a >= n THEN <<>>
        ELSE [i \in 1..(b - a + 1) |-> s[a + i]]

ZRANGE(z, start, stop) == RangeByRank(ZSorted(z), start, stop)

ZREVRANGE(z, start, stop) == RangeByRank(Reverse(ZSorted(z)), start, stop)

\* a score bound: [inf |-> -1 | 0 | 1, v |-> score, excl |-> BOOLEAN]
NegInf == [inf |-> -1, v |-> 0, excl |-> FALSE]
PosInf == [inf |-> 1, v |-> 0, excl |-> FALSE]
Incl(v) == [inf |-> 0, v |-> v, excl |-> FALSE]
Excl(v) == [inf |-> 0, v |-> v, excl |-> TRUE]

AboveMin(s, min) ==
    \/ min.inf = -1
    \/ (min.inf = 0 /\ (IF min.excl THEN s > min.v ELSE s >= min.v))

BelowMax(s, max) ==
    \/ max.inf = 1
    \/ (max.inf = 0 /\ (IF max.excl THEN s < max.v ELSE s <= max.v))

ZRANGEBYSCORE(z, min, max) ==
    ZSorted({x \in z : AboveMin(x.score, min) /\ BelowMax(x.score, max)})

ZREVRANGEBYSCORE(z, max, min) == Reverse(ZRANGEBYSCORE(z, min, max))

ZADD(z, score, member) ==
    {x \in z : x.member # member} \cup {[member |-> member, score |-> score]}

\* ZRANK key member: -1 stands for the nil reply
ZRANK(z, member) ==
    IF \E x \in z : x.member = member
    THEN Cardinality({y \in z :
            ZLess(y, CHOOSE x \in z : x.member = member)})
    ELSE -1

ZREM(z, members) == {x \in z : x.member \notin members}

ZCARD(z) == Cardinality(z)

SCARD(s) == Cardinality(s)

\* SMEMBERS key: every member once, in an order redis chooses
SMEMBERS(s) == Arrangements(s, Cardinality(s))

\* SRANDMEMBER key count (count > 0): count distinct members, or all of them
SRANDMEMBER(s, count) == Arrangements(s, Min2(count, Cardinality(s)))

-----------------------------------------------------------------------------
(* The registered model.  The registry of this revision compiles a spec    *)
(* with the model's name, its field names and, per field, its type, its    *)
(* redis name and its index; the lookups below are the ones util.go calls. *)

PersonFieldNames == <<"Age", "Name", "Active", "Bio">>

FieldType == [Age |-> "int", Name |-> "string", Active |-> "bool", Bio |-> "string"]

FieldIndex == [Age |-> "indexNumeric", Name |-> "indexAlpha", Active |-> "indexBoolean"]

\* the zero modelSpec of a query on an unregistered name
zeroModelSpec == [modelName |-> "", modelType |-> ""]

\* modelSpec.field(fieldName): found
fieldFound(ms, fieldName) == ms.modelName # "" /\ fieldName \in DOMAIN FieldType

\* modelSpec.redisNameForFieldName(fieldName): the field's name, when found
redisNameForFieldName(ms, fieldName) == IF fieldFound(ms, fieldName) THEN fieldName ELSE ""

\* modelSpec.indexTypeForField(fieldName): found
indexFound(ms, fieldName) == ms.modelName # "" /\ fieldName \in DOMAIN FieldIndex

indexTypeForField(ms, fieldName) ==
    IF indexFound(ms, fieldName) THEN FieldIndex[fieldName] ELSE "indexNone"

-----------------------------------------------------------------------------
(* The database: for the model Person the set Person:all, one sorted set   *)
(* Person:<field> per indexed field and one hash Person:<id> per record.   *)

\* the id of the i-th record saved: "1", "2", ...
IdOf(i) == <<48 + i>>

\* the i-th record saved: names "b", "b", "b", "c", "d", ..., ages 2, 1, 0, 2, ...
Person(i) ==
    [id |-> IdOf(i), Age |-> (2 * i) % 3,
     Name |-> IF i <= 3 THEN <<98>> ELSE <<95 + i>>,
     Active |-> (i % 2 = 1)]

boolToInt(b) == IF b THEN 1 ELSE 0

\* the member of an alpha index: "<fieldValue> <modelId>"
AlphaMember(value, id) == value \o <<SP>> \o id

\* the database after the records rs have been saved; failing holds the ids
\* whose hash the store fails to read (an error that is not key-not-found)
Saved(rs) ==
    [ all    |-> {r.id : r \in rs},
      hashes |-> {r.id : r \in rs},
      failing |-> {},
      Age    |-> {[member |-> r.id, score |-> r.Age] : r \in rs},
      Active |-> {[member |-> r.id, score |-> boolToInt(r.Active)] : r \in rs},
      Name   |-> {[member |-> AlphaMember(r.Name, r.id), score |-> 0] : r \in rs} ]

Databases == {Saved({Person(i) : i \in 1..n}) : n \in 0..MaxPeople}

-----------------------------------------------------------------------------
(* Query: the builder.                                                     *)

zeroOrder ==
    [fieldName |-> "", redisName |-> "", orderType |-> "ascending",
     indexed |-> FALSE, indexType |-> "indexNone"]

zeroQuery ==
    [modelSpec |-> zeroModelSpec, includes |-> <<>>, excludes |-> <<>>,
     order |-> zeroOrder, limit |-> 0, offset |-> 0, filters |-> <<>>, err |-> ""]

ErrModelNameNotRegistered == "zoom: model name not registered"
ErrOrderTwice == "zoom: error in Query.Order: previous order already specified"
ErrOrderNotIndexed == "zoom: error in Query.Order: field is not indexed"
ErrOrderNoField == "zoom: error in Query.Order: could not find field"
ErrIncludeExclude == "zoom: cannot use both Include and Exclude modifiers on a query"
ErrFilterSpaces == "zoom: too many spaces in fieldStr argument"
ErrFilterOperator == "zoom: invalid operator in fieldStr"
ErrFilterNoField == "zoom: invalid fieldName in filterString"
ErrFilterNotIndexed == "zoom: filters are only allowed on indexed fields"
ErrFilterNilPointer == "zoom: invalid value arg for Filter. Is it a nil pointer?"
ErrFilterType == "zoom: invalid value arg for Filter. Parsed type of value does not match type of field"
ErrIdOperator == "zoom: only the = operator can be used with Filter on Id field"
ErrIdType == "zoom: for a Filter on Id field, value must be a string type"
ErrOffsetNoOrder == "zoom: offset cannot be applied to queries without an order"

\* what a modifier returns, and what NewQuery returns: the query itself
RetQuery == [op |-> "modifier", err |-> "", ids |-> <<>>, n |-> 0, models |-> <<>>]
RetNewQuery == [op |-> "NewQuery", err |-> "", ids |-> <<>>, n |-> 0, models |-> <<>>]

\* setErrorIfNone without its test: the last error wins
setErrorAlways(qq, e) == [qq EXCEPT !.err = e]

\* q.setErrorIfNone(e)
setErrorIfNone(qq, e) == IF qq.err = "" THEN [qq EXCEPT !.err = e] ELSE qq

newQuery(modelName) ==
    IF modelName \notin DOMAIN modelSpecs
    THEN setErrorIfNone(zeroQuery, ErrModelNameNotRegistered)
    ELSE [zeroQuery EXCEPT !.modelSpec =
            [modelName |-> modelName, modelType |-> modelSpecs[modelName].modelType]]

NewQuery(modelName) ==
    /\ q' = newQuery(modelName)
    /\ ret' = RetNewQuery
    /\ UNCHANGED <<modelSpecs, db, typeToName, nameToType, ev>>

\* An order argument is [desc |-> it starts with "-", name |-> the rest].
OrderQuery(qq, arg) ==
    LET q1 == IF qq.order.fieldName # "" THEN setErrorIfNone(qq, ErrOrderTwice) ELSE qq
        ot == IF arg.desc THEN "descending" ELSE "ascending"
        fieldName == arg.name
    IN  IF fieldFound(q1.modelSpec, fieldName)
        THEN LET q2 == IF ~indexFound(q1.modelSpec, fieldName)
                       THEN setErrorIfNone(q1, ErrOrderNotIndexed) ELSE q1
             IN  [q2 EXCEPT !.order =
                    [fieldName |-> fieldName,
                     redisName |-> redisNameForFieldName(q1.modelSpec, fieldName),
                     orderType |-> ot,
                     indexType |-> indexTypeForField(q1.modelSpec, fieldName),
                     indexed   |-> TRUE]]
        ELSE setErrorIfNone(q1, ErrOrderNoField)

Order(arg) ==
    /\ q' = OrderQuery(q, arg)
    /\ ret' = RetQuery
    /\ UNCHANGED <<modelSpecs, db, typeToName, nameToType, ev>>

Limit(amount) ==
    /\ q' = [q EXCEPT !.limit = amount]
    /\ ret' = RetQuery
    /\ UNCHANGED <<modelSpecs, db, typeToName, nameToType, ev>>

Offset(amount) ==
    /\ q' = [q EXCEPT !.offset = amount]
    /\ ret' = RetQuery
    /\ UNCHANGED <<modelSpecs, db, typeToName, nameToType, ev>>

\* Include without its test of q.excludes
IncludeUnguarded(qq, fields) == [qq EXCEPT !.includes = qq.includes \o fields]

IncludeQuery(qq, fields) ==
    IF Len(qq.excludes) > 0 THEN setErrorIfNone(qq, ErrIncludeExclude)
    ELSE [qq EXCEPT !.includes = qq.includes \o fields]

Include(fields) ==
    /\ Len(q.includes) + Len(fields) <= MaxFieldList
    /\ q' = IncludeQuery(q, fields)
    /\ ret' = RetQuery
    /\ UNCHANGED <<modelSpecs, db, typeToName, nameToType, ev>>

ExcludeQuery(qq, fields) ==
    IF Len(qq.includes) > 0 THEN setErrorIfNone(qq, ErrIncludeExclude)
    ELSE [qq EXCEPT !.excludes = qq.excludes \o fields]

Exclude(fields) ==
    /\ Len(q.excludes) + Len(fields) <= MaxFieldList
    /\ q' = ExcludeQuery(q, fields)
    /\ ret' = RetQuery
    /\ UNCHANGED <<modelSpecs, db, typeToName, nameToType, ev>>

filterSymbols ==
    [eq |-> "equal", ne |-> "notEqual", gt |-> "greater", lt |-> "less",
     ge |-> "greaterOrEqual", le |-> "lessOrEqual"]

\* the operator tokens "=", "!=", ">", "<", ">=", "<=" and one that is none of them
OpToken == [eq |-> "=", ne |-> "!=", gt |-> ">", lt |-> "<", ge |-> ">=", le |-> "<="]

filterTypeOf(operator) ==
    IF \E k \in DOMAIN OpToken : OpToken[k] = operator
    THEN filterSymbols[CHOOSE k \in DOMAIN OpToken : OpToken[k] = operator]
    ELSE ""

\* A filter string is given as the list strings.Split(filterString, " ")
\* returns for it: the pieces of the string between its spaces.
splitFilterString(filterString) ==
    IF Len(filterString) # 2
    THEN [fieldName |-> "", operator |-> "", err |-> ErrFilterSpaces]
    ELSE [fieldName |-> filterString[1], operator |-> filterString[2], err |-> ""]

\* A value argument is [ptr |-> it is a pointer, nil |-> the pointer is nil,
\* type |-> the type it is or points to, val |-> the value].  The
\* reflect.Value a filter keeps is its filterValue with its valueType.
filterById(qq, operator, value) ==
    IF operator # "=" THEN setErrorIfNone(qq, ErrIdOperator)
    ELSE IF value.ptr \/ value.type # "string" THEN setErrorIfNone(qq, ErrIdType)
    ELSE [qq EXCEPT !.filters = Append(qq.filters,
            [fieldName |-> "Id", redisName |-> "Id", filterType |-> "equal",
             filterValue |-> value.val, valueType |-> value.type,
             indexType |-> "indexNone", byId |-> TRUE])]

\* Query.Filter without the comparison of valueType with fieldType
FilterQueryNoTypeCheck(qq, filterString, value) ==
    LET sp == splitFilterString(filterString)
        fieldName == sp.fieldName
        operator == sp.operator
    IN  IF sp.err # "" THEN setErrorIfNone(qq, sp.err)
        ELSE IF fieldName = "Id" THEN filterById(qq, operator, value)
        ELSE IF filterTypeOf(operator) = "" THEN setErrorIfNone(qq, ErrFilterOperator)
        ELSE IF ~fieldFound(qq.modelSpec, fieldName) THEN setErrorIfNone(qq, ErrFilterNoField)
        ELSE IF ~indexFound(qq.modelSpec, fieldName) THEN setErrorIfNone(qq, ErrFilterNotIndexed)
        ELSE IF value.ptr /\ value.nil THEN setErrorIfNone(qq, ErrFilterNilPointer)
        ELSE [qq EXCEPT !.filters = Append(qq.filters,
                [fieldName |-> fieldName,
                 redisName |-> redisNameForFieldName(qq.modelSpec, fieldName),
                 filterType |-> filterTypeOf(operator),
                 filterValue |-> value.val,
                 valueType |-> value.type,
                 indexType |-> indexTypeForField(qq.modelSpec, fieldName),
                 byId |-> FALSE])]

FilterQuery(qq, filterString, value) ==
    LET sp == splitFilterString(filterString)
        fieldName == sp.fieldName
        operator == sp.operator
    IN  IF sp.err # "" THEN setErrorIfNone(qq, sp.err)
        ELSE IF fieldName = "Id" THEN filterById(qq, operator, value)
        ELSE IF filterTypeOf(operator) = "" THEN setErrorIfNone(qq, ErrFilterOperator)
        ELSE IF ~fieldFound(qq.modelSpec, fieldName) THEN setErrorIfNone(qq, ErrFilterNoField)
        ELSE IF ~indexFound(qq.modelSpec, fieldName) THEN setErrorIfNone(qq, ErrFilterNotIndexed)
        ELSE IF value.ptr /\ value.nil THEN setErrorIfNone(qq, ErrFilterNilPointer)
        ELSE IF value.type # FieldType[fieldName] THEN setErrorIfNone(qq, ErrFilterType)
        ELSE [qq EXCEPT !.filters = Append(qq.filters,
                [fieldName |-> fieldName,
                 redisName |-> redisNameForFieldName(qq.modelSpec, fieldName),
                 filterType |-> filterTypeOf(operator),
                 filterValue |-> value.val,
                 valueType |-> value.type,
                 indexType |-> indexTypeForField(qq.modelSpec, fieldName),
                 byId |-> FALSE])]

Filter(filterString, value) ==
    /\ Len(q.filters) < MaxFilters
    /\ q' = FilterQuery(q, filterString, value)
    /\ ret' = RetQuery
    /\ UNCHANGED <<modelSpecs, db, typeToName, nameToType, ev>>

-----------------------------------------------------------------------------
(* Query: evaluation.                                                      *)

\* extractModelIdFromAlphaIndexValue taking slices[1]: the part between the
\* first space and the second
extractSecondSlice(valueAndId) ==
    LET spaces == {i \in 1..Len(valueAndId) : valueAndId[i] = SP}
        first == IF spaces = {} THEN 0 ELSE CHOOSE i \in spaces : \A j \in spaces : i <= j
        rest == {i \in spaces : i > first}
        second == IF rest = {} THEN Len(valueAndId) + 1
                  ELSE CHOOSE i \in rest : \A j \in rest : i <= j
    IN  SubSeq(valueAndId, first + 1, second - 1)

\* the part of valueAndId after its last space
extractModelIdFromAlphaIndexValue(valueAndId) ==
    LET spaces == {i \in 1..Len(valueAndId) : valueAndId[i] = SP}
        last == IF spaces = {} THEN 0 ELSE CHOOSE i \in spaces : \A j \in spaces : j <= i
    IN  SubSeq(valueAndId, last + 1, Len(valueAndId))

extractAll(members) ==
    [i \in 1..Len(members) |-> extractModelIdFromAlphaIndexValue(members[i])]

\* orderedIntersectStrings with its loops exchanged: the order of second
orderedIntersectSwapped(first, second) ==
    SelectSeq(second, LAMBDA a : a \in SeqToSet(first))

\* orderedIntersectStrings(first, second)
orderedIntersectStrings(first, second) ==
    SelectSeq(first, LAMBDA a : a \in SeqToSet(second))

\* the replies of ZRANK before, ZRANK after and the set after ZREM
alphaRanksOf(z2, before, after) ==
    [beforeRank |-> ZRANK(z2, before),
     afterRank  |-> ZRANK(z2, after),
     z          |-> ZREM(z2, {before, after})]

\* getAlphaRanks without its ZREM: the two sentinels stay in the set
getAlphaRanksNoRemove(z, target) ==
    [alphaRanksOf(ZADD(ZADD(z, 0, target), 0, target \o delString),
                  target, target \o delString)
        EXCEPT !.z = ZADD(ZADD(z, 0, target), 0, target \o delString)]

\* One transaction: ZADD before, ZADD after, ZRANK before, ZRANK after, ZREM.
getAlphaRanks(z, target) ==
    alphaRanksOf(ZADD(ZADD(z, 0, target), 0, target \o delString),
                 target, target \o delString)

Ids(ids, d) == [ids |-> ids, err |-> "", db |-> d]

\* getIdsNumeric with the bound of "less" inclusive (no "(" prefix)
getIdsNumericInclusiveLess(f, reverse, d) ==
    LET z == d[f.redisName]
        v == f.filterValue
    IN  IF f.filterType = "less"
        THEN IF ~reverse THEN Ids(ZRANGEBYSCORE(z, NegInf, Incl(v)), d)
             ELSE Ids(ZREVRANGEBYSCORE(z, Incl(v), NegInf), d)
        ELSE IF f.filterType = "notEqual"
        THEN LET lessIds == ZRANGEBYSCORE(z, NegInf, Excl(v))
                 greaterIds == ZRANGEBYSCORE(z, Excl(v), PosInf)
             IN  IF ~reverse THEN Ids(lessIds \o greaterIds, d)
                 ELSE Ids(Reverse(greaterIds) \o Reverse(lessIds), d)
        ELSE LET min == CASE f.filterType = "equal" -> Incl(v)
                          [] f.filterType = "greater" -> Excl(v)
                          [] f.filterType = "lessOrEqual" -> NegInf
                          [] f.filterType = "greaterOrEqual" -> Incl(v)
                 max == CASE f.filterType = "equal" -> Incl(v)
                          [] f.filterType = "greater" -> PosInf
                          [] f.filterType = "lessOrEqual" -> Incl(v)
                          [] f.filterType = "greaterOrEqual" -> PosInf
             IN  IF ~reverse THEN Ids(ZRANGEBYSCORE(z, min, max), d)
                 ELSE Ids(ZREVRANGEBYSCORE(z, max, min), d)

getIdsNumeric(f, reverse, d) ==
    LET z == d[f.redisName]
        v == f.filterValue
    IN  IF f.filterType = "notEqual"
        THEN LET lessIds == ZRANGEBYSCORE(z, NegInf, Excl(v))
                 greaterIds == ZRANGEBYSCORE(z, Excl(v), PosInf)
             IN  IF ~reverse THEN Ids(lessIds \o greaterIds, d)
                 ELSE Ids(Reverse(greaterIds) \o Reverse(lessIds), d)
        ELSE LET min == CASE f.filterType = "equal" -> Incl(v)
                          [] f.filterType = "less" -> NegInf
                          [] f.filterType = "greater" -> Excl(v)
                          [] f.filterType = "lessOrEqual" -> NegInf
                          [] f.filterType = "greaterOrEqual" -> Incl(v)
                 max == CASE f.filterType = "equal" -> Incl(v)
                          [] f.filterType = "less" -> Excl(v)
                          [] f.filterType = "greater" -> PosInf
                          [] f.filterType = "lessOrEqual" -> Incl(v)
                          [] f.filterType = "greaterOrEqual" -> PosInf
             IN  IF ~reverse THEN Ids(ZRANGEBYSCORE(z, min, max), d)
                 ELSE Ids(ZREVRANGEBYSCORE(z, max, min), d)

\* getIdsBoolean without the early returns of "< false" and "> true"
getIdsBooleanNoEarlyReturn(f, reverse, d) ==
    LET z == d[f.redisName]
        b == f.filterValue
        min == CASE f.filterType = "equal" -> IF b THEN 1 ELSE 0
                 [] f.filterType = "less" -> 0
                 [] f.filterType = "greater" -> 1
                 [] f.filterType = "lessOrEqual" -> 0
                 [] f.filterType = "greaterOrEqual" -> IF b THEN 1 ELSE 0
                 [] f.filterType = "notEqual" -> IF b THEN 0 ELSE 1
        max == CASE f.filterType = "equal" -> IF b THEN 1 ELSE 0
                 [] f.filterType = "less" -> 0
                 [] f.filterType = "greater" -> 1
                 [] f.filterType = "lessOrEqual" -> IF b THEN 1 ELSE 0
                 [] f.filterType = "greaterOrEqual" -> 1
                 [] f.filterType = "notEqual" -> IF b THEN 0 ELSE 1
    IN  IF ~reverse THEN Ids(ZRANGEBYSCORE(z, Incl(min), Incl(max)), d)
        ELSE Ids(ZREVRANGEBYSCORE(z, Incl(max), Incl(min)), d)

getIdsBoolean(f, reverse, d) ==
    LET z == d[f.redisName]
        b == f.filterValue
        none == (f.filterType = "less" /\ ~b) \/ (f.filterType = "greater" /\ b)
        min == CASE f.filterType = "equal" -> IF b THEN 1 ELSE 0
                 [] f.filterType = "less" -> 0
                 [] f.filterType = "greater" -> 1
                 [] f.filterType = "lessOrEqual" -> 0
                 [] f.filterType = "greaterOrEqual" -> IF b THEN 1 ELSE 0
                 [] f.filterType = "notEqual" -> IF b THEN 0 ELSE 1
        max == CASE f.filterType = "equal" -> IF b THEN 1 ELSE 0
                 [] f.filterType = "less" -> 0
                 [] f.filterType = "greater" -> 1
                 [] f.filterType = "lessOrEqual" -> IF b THEN 1 ELSE 0
                 [] f.filterType = "greaterOrEqual" -> 1
                 [] f.filterType = "notEqual" -> IF b THEN 0 ELSE 1
    IN  IF none THEN Ids(<<>>, d)
        ELSE IF ~reverse THEN Ids(ZRANGEBYSCORE(z, Incl(min), Incl(max)), d)
        ELSE Ids(ZREVRANGEBYSCORE(z, Incl(max), Incl(min)), d)

\* the alpha case of filter.getIds once the ranks are known; z is the set
\* and d1 the database the transaction of getAlphaRanks leaves
getIdsAlphaRanked(f, reverse, beforeRank, afterRank, z, d1) ==
    IF f.filterType = "notEqual"
    THEN LET lessIds == IF afterRank > 3
                        THEN extractAll(ZRANGE(z, 0, afterRank - (afterRank - beforeRank) - 1))
                        ELSE <<>>
             greaterIds == extractAll(ZRANGE(z, beforeRank + (afterRank - beforeRank) - 1, -1))
         IN  IF ~reverse THEN Ids(lessIds \o greaterIds, d1)
             ELSE Ids(Reverse(greaterIds) \o Reverse(lessIds), d1)
    ELSE LET none == \/ (f.filterType = "equal" /\ beforeRank + 1 = afterRank)
                     \/ (f.filterType = "less" /\ afterRank <= 2)
                     \/ (f.filterType = "lessOrEqual" /\ afterRank <= 1)
             start == CASE f.filterType = "equal" -> beforeRank
                        [] f.filterType = "less" -> 0
                        [] f.filterType = "greater" -> beforeRank + (afterRank - beforeRank) - 1
                        [] f.filterType = "lessOrEqual" -> 0
                        [] f.filterType = "greaterOrEqual" -> beforeRank
             stop == CASE f.filterType = "equal" -> afterRank - 2
                       [] f.filterType = "less" -> afterRank - (afterRank - beforeRank) - 1
                       [] f.filterType = "greater" -> -1
                       [] f.filterType = "lessOrEqual" -> afterRank - 2
                       [] f.filterType = "greaterOrEqual" -> -1
         IN  IF none THEN Ids(<<>>, d1)
             ELSE IF reverse THEN Ids(Reverse(extractAll(ZRANGE(z, start, stop))), d1)
             ELSE Ids(extractAll(ZRANGE(z, start, stop)), d1)

getIdsAlphaWith(f, reverse, d, r) ==
    getIdsAlphaRanked(f, reverse, r.beforeRank, r.afterRank, r.z,
                      [d EXCEPT ![f.redisName] = r.z])

getIdsAlpha(f, reverse, d) ==
    getIdsAlphaWith(f, reverse, d, getAlphaRanks(d[f.redisName], f.filterValue))

ErrFilterUnindexed == "zoom: cannot use filters on unindexed field"

\* filter.getIds without its special case for id filters
getIdsNoById(f, o, d) ==
    LET reverse == o.orderType = "descending" /\ o.fieldName = f.fieldName
    IN  CASE f.indexType = "indexNumeric" -> getIdsNumeric(f, reverse, d)
          [] f.indexType = "indexBoolean" -> getIdsBoolean(f, reverse, d)
          [] f.indexType = "indexAlpha" -> getIdsAlpha(f, reverse, d)
          [] OTHER -> [ids |-> <<>>, err |-> ErrFilterUnindexed, db |-> d]

\* filter.getIds(modelName, o) on the database d
getIds(f, o, d) ==
    IF f.byId THEN Ids(<<f.filterValue>>, d)
    ELSE LET reverse == o.orderType = "descending" /\ o.fieldName = f.fieldName
         IN  CASE f.indexType = "indexNumeric" -> getIdsNumeric(f, reverse, d)
               [] f.indexType = "indexBoolean" -> getIdsBoolean(f, reverse, d)
               [] f.indexType = "indexAlpha" -> getIdsAlpha(f, reverse, d)
               [] OTHER -> [ids |-> <<>>, err |-> ErrFilterUnindexed, db |-> d]

\* Query.getOrderedIds() with stop = start + limit
getOrderedIdsWideStop(qq, d) ==
    LET start == qq.offset
        stop == IF qq.limit # 0 THEN start + qq.limit ELSE -1
        z == d[qq.order.redisName]
        reply == IF qq.order.orderType = "ascending"
                 THEN ZRANGE(z, start, stop) ELSE ZREVRANGE(z, start, stop)
    IN  IF qq.order.indexType \in {"indexNumeric", "indexBoolean"}
        THEN Ids(reply, d)
        ELSE Ids(extractAll(reply), d)

\* Query.getOrderedIds()
getOrderedIds(qq, d) ==
    LET start == qq.offset
        stop == IF qq.limit # 0 THEN start + qq.limit - 1 ELSE -1
        z == d[qq.order.redisName]
        reply == IF qq.order.orderType = "ascending"
                 THEN ZRANGE(z, start, stop) ELSE ZREVRANGE(z, start, stop)
    IN  IF qq.order.indexType \in {"indexNumeric", "indexBoolean"}
        THEN Ids(reply, d)
        ELSE Ids(extractAll(reply), d)

\* Query.getIdsWithoutFilters(): the set of its possible results
getIdsWithoutFilters(qq, d) ==
    IF qq.order.fieldName = ""
    THEN IF qq.offset # 0
         THEN {[ids |-> <<>>, err |-> ErrOffsetNoOrder, db |-> d]}
         ELSE IF qq.limit = 0
         THEN {Ids(ids, d) : ids \in SMEMBERS(d.all)}
         ELSE {Ids(ids, d) : ids \in SRANDMEMBER(d.all, qq.limit)}
    ELSE {getOrderedIds(qq, d)}

\* idSets[fieldName] = ids
putIdSet(idSets, fieldName, ids) ==
    [k \in DOMAIN idSets \cup {fieldName} |-> IF k = fieldName THEN ids ELSE idSets[k]]

\* the first loop of getIdsWithFilters from the i-th filter on: the id set of
\* each filter, kept per field name, until one filter fails or finds nothing
\* (r is what the i-th filter returns)
RECURSIVE filterLoop(_, _, _, _)
filterStep(qq, i, idSets, r) ==
    IF r.err # "" \/ Len(r.ids) = 0
    THEN [stop |-> TRUE, err |-> r.err, idSets |-> idSets, db |-> r.db]
    ELSE filterLoop(qq, i + 1, putIdSet(idSets, qq.filters[i].fieldName, r.ids), r.db)

filterLoop(qq, i, idSets, d) ==
    IF i > Len(qq.filters)
    THEN [stop |-> FALSE, err |-> "", idSets |-> idSets, db |-> d]
    ELSE filterStep(qq, i, idSets, getIds(qq.filters[i], qq.order, d))

\* first intersected with every list of others, in any order
RECURSIVE intersectAll(_, _, _)
intersectAll(first, idSets, keys) ==
    IF keys = {} THEN first
    ELSE LET k == CHOOSE x \in keys : TRUE
         IN  intersectAll(orderedIntersectStrings(first, idSets[k]), idSets, keys \ {k})

\* the list the result is ordered by: the ids of the filter on the order
\* field, or else the ordered ids
primaryIds(qq, idSets, d) ==
    IF qq.order.fieldName \in DOMAIN idSets THEN idSets[qq.order.fieldName]
    ELSE getOrderedIds(qq, d).ids

\* getIdsWithFilters after its first loop, which returned l
combineIdSets(qq, l) ==
    IF l.stop THEN {[ids |-> <<>>, err |-> l.err, db |-> l.db]}
    ELSE IF qq.order.fieldName = ""
    THEN {Ids(intersectAll(l.idSets[k0], l.idSets, DOMAIN l.idSets), l.db) :
            k0 \in DOMAIN l.idSets}
    ELSE {Ids(intersectAll(primaryIds(qq, l.idSets, l.db), l.idSets,
                DOMAIN l.idSets \ {qq.order.fieldName}), l.db)}

\* Query.getIdsWithFilters(): the set of its possible results (the map idSets
\* is ranged over in an order the runtime chooses)
getIdsWithFilters(qq, d) == combineIdSets(qq, filterLoop(qq, 1, <<>>, d))

\* Query.GetIds(): the set of its possible results
GetIds(qq, d) ==
    IF Len(qq.filters) = 0 THEN getIdsWithoutFilters(qq, d) ELSE getIdsWithFilters(qq, d)

\* getIdCount without the special case for an offset beyond the count
getIdCountNoSpecialCase(qq, d) ==
    IF qq.order.fieldName = ""
    THEN IF qq.offset # 0 THEN [n |-> 0, err |-> ErrOffsetNoOrder]
         ELSE LET count == SCARD(d.all)
              IN  IF qq.limit = 0 THEN [n |-> count, err |-> ""]
                  ELSE IF count > qq.limit THEN [n |-> qq.limit, err |-> ""]
                  ELSE [n |-> count, err |-> ""]
    ELSE LET count == ZCARD(d[qq.order.redisName])
         IN  IF qq.limit = 0 /\ qq.offset = 0 THEN [n |-> count, err |-> ""]
             ELSE IF qq.limit = 0 THEN [n |-> count - qq.offset, err |-> ""]
             ELSE [n |-> Min2(count - qq.offset, qq.limit), err |-> ""]

\* Query.getIdCount()
getIdCount(qq, d) ==
    IF qq.order.fieldName = ""
    THEN IF qq.offset # 0 THEN [n |-> 0, err |-> ErrOffsetNoOrder]
         ELSE LET count == SCARD(d.all)
              IN  IF qq.limit = 0 THEN [n |-> count, err |-> ""]
                  ELSE IF count > qq.limit THEN [n |-> qq.limit, err |-> ""]
                  ELSE [n |-> count, err |-> ""]
    ELSE LET count == ZCARD(d[qq.order.redisName])
         IN  IF qq.limit = 0 /\ qq.offset = 0 THEN [n |-> count, err |-> ""]
             ELSE IF qq.offset > count THEN [n |-> 0, err |-> ""]
             ELSE IF qq.limit = 0 THEN [n |-> count - qq.offset, err |-> ""]
             ELSE [n |-> Min2(count - qq.offset, qq.limit), err |-> ""]

-----------------------------------------------------------------------------
(* Query: the finishers.                                                   *)

\* removeElementFromStringSlice(list, elem), list being the first len strings
\* of the array arr: the slice it returns is the first len strings of arr
removeElementFromStringSlice(arr, len, elem) ==
    IF \E i \in 1..len : arr[i] = elem
    THEN LET i == CHOOSE i \in 1..len : arr[i] = elem /\ \A j \in 1..(i - 1) : arr[j] # elem
         IN  [arr |-> [j \in 1..Len(arr) |-> IF j >= i /\ j < len THEN arr[j + 1] ELSE arr[j]],
              len |-> len - 1]
    ELSE [arr |-> arr, len |-> len]

RECURSIVE removeAll(_, _, _, _)
removeAll(arr, len, excludes, k) ==
    IF k > Len(excludes) THEN [arr |-> arr, len |-> len]
    ELSE LET r == removeElementFromStringSlice(arr, len, excludes[k])
         IN  removeAll(r.arr, r.len, excludes, k + 1)

\* Query.getIncludes(): the list it returns (all |-> TRUE for nil) and the
\* array of the model's fieldNames after it, which the list is a slice of
getIncludes(qq, fieldNames) ==
    IF Len(qq.includes) # 0
    THEN [all |-> FALSE, fields |-> qq.includes, fieldNames |-> fieldNames]
    ELSE IF Len(qq.excludes) # 0
    THEN LET r == removeAll(fieldNames, Len(fieldNames), qq.excludes, 1)
         IN  [all |-> FALSE, fields |-> SubSeq(r.arr, 1, r.len), fieldNames |-> r.arr]
    ELSE [all |-> TRUE, fields |-> <<>>, fieldNames |-> fieldNames]

ErrKeyNotFound == "zoom: key not found"
ErrRedis == "redis: command failed"

\* t.findModel(mr, includes) for the model id: the error it returns
findModel(id, d) ==
    IF id \in d.failing THEN ErrRedis
    ELSE IF id \notin d.hashes THEN ErrKeyNotFound
    ELSE ""

\* scanModelsByIds: the ids of the models appended to the results and the
\* error returned.  An id whose findModel returns key-not-found is skipped;
\* any other error of findModel is dropped and the model appended.  The
\* error returned is that of t.exec(), which after a failed findModel may
\* or may not fail too.
scanModelsByIds(ids, d) ==
    {[models |-> SelectSeq(ids, LAMBDA id : findModel(id, d) # ErrKeyNotFound), err |-> e] :
        e \in IF \E k \in 1..Len(ids) : findModel(ids[k], d) = ErrRedis
               THEN {"", ErrRedis} ELSE {""}}

Failed(op, e) == [op |-> op, err |-> e, ids |-> <<>>, n |-> 0, models |-> <<>>]

IdsOnly ==
    /\ IF q.err # ""
       THEN ret' = Failed("IdsOnly", q.err) /\ db' = db
       ELSE \E r \in GetIds(q, db) :
                /\ ret' = [op |-> "IdsOnly", err |-> r.err, ids |-> r.ids, n |-> 0,
                           models |-> <<>>]
                /\ db' = r.db
    /\ UNCHANGED <<modelSpecs, q, typeToName, nameToType, ev>>

Count ==
    /\ IF q.err # ""
       THEN ret' = Failed("Count", q.err)
       ELSE LET c == getIdCount(q, db)
            IN  ret' = [op |-> "Count", err |-> c.err, ids |-> <<>>, n |-> c.n,
                        models |-> <<>>]
    /\ UNCHANGED <<modelSpecs, db, q, typeToName, nameToType, ev>>

\* what Run and Scan do once the sticky error and the argument are checked
runQuery(op) ==
    \E r \in GetIds(q, db) :
        /\ db' = r.db
        /\ IF r.err # ""
           THEN ret' = Failed(op, r.err) /\ modelSpecs' = modelSpecs
           ELSE LET name == q.modelSpec.modelName
                    inc == getIncludes(q, modelSpecs[name].fieldNames)
                IN  /\ \E s \in scanModelsByIds(r.ids, r.db) :
                            ret' = [op |-> op, err |-> s.err, ids |-> r.ids, n |-> 0,
                                    models |-> s.models]
                    /\ modelSpecs' = [modelSpecs EXCEPT ![name].fieldNames = inc.fieldNames]

Run ==
    /\ IF q.err # ""
       THEN ret' = Failed("Run", q.err) /\ UNCHANGED <<modelSpecs, db>>
       ELSE runQuery("Run")
    /\ UNCHANGED <<q, typeToName, nameToType, ev>>

ErrScanNotSlice == "zoom: Query.Scan requires a pointer to a slice or array as an argument"
ErrScanNotModels == "zoom: Query.Scan requires a pointer to a slice of pointers to model structs"
ErrScanOtherType == "zoom: argument for Query.Scan did not match the type of the model"

\* The argument of Scan is given by what it points to: "int" (no slice),
\* "[]int" (no slice of model pointers), "[]*Other" or "[]*Person"; a model
\* type is given as "*Person".
Scan(in) ==
    /\ IF q.err # "" THEN ret' = Failed("Scan", q.err) /\ UNCHANGED <<modelSpecs, db>>
       ELSE IF in = "int" THEN ret' = Failed("Scan", ErrScanNotSlice) /\ UNCHANGED <<modelSpecs, db>>
       ELSE IF in = "[]int" THEN ret' = Failed("Scan", ErrScanNotModels) /\ UNCHANGED <<modelSpecs, db>>
       ELSE IF in # "[]" \o q.modelSpec.modelType
       THEN ret' = Failed("Scan", ErrScanOtherType) /\ UNCHANGED <<modelSpecs, db>>
       ELSE runQuery("Scan")
    /\ UNCHANGED <<q, typeToName, nameToType, ev>>

-----------------------------------------------------------------------------
(* The arguments the calls are made with.                                  *)

IntValue(v) == [ptr |-> FALSE, nil |-> FALSE, type |-> "int", val |-> v]
StringValue(v) == [ptr |-> FALSE, nil |-> FALSE, type |-> "string", val |-> v]
BoolValue(v) == [ptr |-> FALSE, nil |-> FALSE, type |-> "bool", val |-> v]
IntPointer(v) == [ptr |-> TRUE, nil |-> FALSE, type |-> "int", val |-> v]
NilIntPointer == [ptr |-> TRUE, nil |-> TRUE, type |-> "int", val |-> 0]

Asc(name) == [desc |-> FALSE, name |-> name]
Desc(name) == [desc |-> TRUE, name |-> name]

Operators == {OpToken[k] : k \in DOMAIN OpToken}

\* filters the builder accepts
AgeFilters == {<<<<"Age", op>>, IntValue(1)>> : op \in {"=", "<", ">"}}
NameFilters == {<<<<"Name", op>>, StringValue(<<98>>)>> : op \in Operators}
IdFilters == {<<<<"Id", "=">>, StringValue(IdOf(1))>>}

\* filters the builder rejects, one per check
BadFilters ==
    { <<<<"Age">>, IntValue(1)>>,
      <<<<"Age", "~">>, IntValue(1)>>,
      <<<<"Nope", "=">>, IntValue(1)>>,
      <<<<"Bio", "=">>, StringValue(<<98>>)>>,
      <<<<"Age", "=">>, NilIntPointer>>,
      <<<<"Age", "=">>, StringValue(<<98>>)>>,
      <<<<"Id", "<">>, StringValue(IdOf(1))>>,
      <<<<"Id", "=">>, IntValue(1)>> }

\* the filters Spec calls Filter with
FilterArgs == {<<<<"Age", ">=">>, IntPointer(1)>>} \cup IdFilters \cup BadFilters

\* the field lists Include and Exclude are called with
IncludeArgs == {<<>>, <<"Age">>, <<"Name", "Bio">>}
ExcludeArgs == {<<>>, <<"Bio">>}

Registered == [n \in {"Person"} |-> [fieldNames |-> PersonFieldNames, modelType |-> "*Person"]]

\* no internal call is followed
Idle == [pc |-> "idle"]

\* the registry after Register(&Person{}, "Person")
InitRegistered ==
    /\ typeToName = [t \in {"*Person"} |-> "Person"]
    /\ nameToType = [n \in {"Person"} |-> "*Person"]
    /\ modelSpecs = Registered

-----------------------------------------------------------------------------
(* Spec: every modifier with arguments it accepts and arguments it rejects,*)
(* on a query for a registered or an unregistered name.                    *)

Init ==
    /\ InitRegistered
    /\ ev = Idle
    /\ db = Saved({Person(1), Person(2)})
    /\ q \in {newQuery(name) : name \in {"Person", "Ghost"}}
    /\ ret = RetNewQuery

Next ==
    \/ \E name \in {"Person", "Ghost"} : NewQuery(name)
    \/ \E arg \in {Asc("Age"), Desc("Name"), Asc("Bio"), Asc("Nope")} : Order(arg)
    \/ \E amount \in 0..MaxLimit : Limit(amount)
    \/ \E amount \in 0..MaxOffset : Offset(amount)
    \/ \E fields \in IncludeArgs : Include(fields)
    \/ \E fields \in ExcludeArgs : Exclude(fields)
    \/ \E a \in FilterArgs : Filter(a[1], a[2])
    \/ IdsOnly
    \/ Count
    \/ Run
    \/ \E in \in {"int", "[]int", "[]*Other", "[]*Person"} : Scan(in)

Spec == Init /\ [][Next]_vars

-----------------------------------------------------------------------------
(* SpecEval: queries the builder accepts, on databases of 0 .. MaxPeople   *)
(* records.                                                                *)

InitEval ==
    /\ InitRegistered
    /\ ev = Idle
    /\ db \in Databases
    /\ q = newQuery("Person")
    /\ ret = RetNewQuery

NextEval ==
    \/ NewQuery("Person")
    \/ \E arg \in {Asc("Age"), Desc("Age"), Asc("Name"), Desc("Name")} : Order(arg)
    \/ \E amount \in 0..MaxLimit : Limit(amount)
    \/ \E amount \in 0..MaxOffset : Offset(amount)
    \/ \E a \in AgeFilters \cup NameFilters \cup IdFilters : Filter(a[1], a[2])
    \/ IdsOnly
    \/ Count
    \/ Run
    \/ Scan("[]*Person")

SpecEval == InitEval /\ [][NextEval]_vars

-----------------------------------------------------------------------------
(* SpecUnfiltered: the queries without filters, on the same databases.     *)

NextUnfiltered ==
    \/ NewQuery("Person")
    \/ \E arg \in {Asc("Age"), Desc("Age"), Asc("Name"), Desc("Name")} : Order(arg)
    \/ \E amount \in 0..MaxLimit : Limit(amount)
    \/ \E amount \in 0..MaxOffset : Offset(amount)
    \/ IdsOnly
    \/ Count
    \/ Run
    \/ Scan("[]*Person")

SpecUnfiltered == InitEval /\ [][NextUnfiltered]_vars

-----------------------------------------------------------------------------
(* The registry (model.go).  A type is given by its name in Go syntax:     *)
(* "*Person" and "*Pet" are pointers to model structs, "Person" is a       *)
(* struct, "*int" a pointer to no struct, and "*Bad" a pointer to a struct *)
(* with a field tagged with a redisType that is neither set nor list.      *)

Types == {"*Person", "*Pet", "Person", "*int", "*Bad"}

Names == {"Person", "Pet"}

\* typ.Kind() == reflect.Ptr
IsPtr(typ) == typ \in {"*Person", "*Pet", "*int", "*Bad"}

\* typ.Elem().Kind() == reflect.Struct
ElemIsStruct(typ) == typ \in {"*Person", "*Pet", "*Bad"}

ErrSchema == "zoom: schema must be a pointer to a struct"
ErrRedisType == "zoom: invalid struct tag for redisType"
ErrTypeAlreadyRegistered == "zoom: type already registered"
ErrNameAlreadyRegistered == "zoom: name already registered"
ErrModelTypeNotRegistered == "zoom: model type not registered"

\* compileModelSpec(typ, ms): the error it returns and the spec it fills
compileModelSpec(typ) ==
    CASE typ = "*Bad" -> [err |-> ErrRedisType, ms |-> [fieldNames |-> <<"Tags">>, modelType |-> typ]]
      [] typ = "*Pet" -> [err |-> "", ms |-> [fieldNames |-> <<"Name", "Owner">>, modelType |-> typ]]
      [] OTHER -> [err |-> "", ms |-> [fieldNames |-> PersonFieldNames, modelType |-> typ]]

\* m[k] = v
mapPut(m, k, v) == [x \in DOMAIN m \cup {k} |-> IF x = k THEN v ELSE m[x]]

\* delete(m, k)
mapDelete(m, k) == [x \in DOMAIN m \ {k} |-> m[x]]

emptyMap == [x \in {} |-> ""]

\* alreadyRegisteredName without its lookup: no name is taken
neverRegisteredName(n) == FALSE

alreadyRegisteredName(n) == n \in DOMAIN nameToType

alreadyRegisteredType(t) == t \in DOMAIN typeToName

\* the error Register(in, name) returns, in being a value of the type typ
registerError(typ, name) ==
    IF ~IsPtr(typ) THEN ErrSchema
    ELSE IF ~ElemIsStruct(typ) THEN ErrSchema
    ELSE IF alreadyRegisteredType(typ) THEN ErrTypeAlreadyRegistered
    ELSE IF alreadyRegisteredName(name) THEN ErrNameAlreadyRegistered
    ELSE compileModelSpec(typ).err

Register(typ, name) ==
    /\ ret' = Failed("Register", registerError(typ, name))
    /\ IF registerError(typ, name) # ""
       THEN UNCHANGED <<typeToName, nameToType, modelSpecs>>
       ELSE /\ typeToName' = mapPut(typeToName, typ, name)
            /\ nameToType' = mapPut(nameToType, name, typ)
            /\ modelSpecs' = mapPut(modelSpecs, name, compileModelSpec(typ).ms)
    /\ UNCHANGED <<db, q, ev>>

UnregisterName(name) ==
    /\ IF name \notin DOMAIN nameToType
       THEN /\ ret' = Failed("UnregisterName", ErrModelNameNotRegistered)
            /\ UNCHANGED <<typeToName, nameToType>>
       ELSE /\ ret' = Failed("UnregisterName", "")
            /\ nameToType' = mapDelete(nameToType, name)
            /\ typeToName' = mapDelete(typeToName, nameToType[name])
    /\ UNCHANGED <<modelSpecs, db, q, ev>>

UnregisterType(typ) ==
    /\ IF typ \notin DOMAIN typeToName
       THEN /\ ret' = Failed("UnregisterType", ErrModelTypeNotRegistered)
            /\ UNCHANGED <<typeToName, nameToType>>
       ELSE /\ ret' = Failed("UnregisterType", "")
            /\ nameToType' = mapDelete(nameToType, typeToName[typ])
            /\ typeToName' = mapDelete(typeToName, typ)
    /\ UNCHANGED <<modelSpecs, db, q, ev>>

-----------------------------------------------------------------------------
(* SpecRegistry: models registered and unregistered, and queries made by   *)
(* name, on an empty store.                                                *)

InitRegistry ==
    /\ typeToName = emptyMap
    /\ nameToType = emptyMap
    /\ modelSpecs = emptyMap
    /\ ev = Idle
    /\ db = Saved({})
    /\ q = setErrorIfNone(zeroQuery, ErrModelNameNotRegistered)
    /\ ret = RetNewQuery

NextRegistry ==
    \/ \E typ \in Types, name \in Names : Register(typ, name)
    \/ \E name \in Names : UnregisterName(name)
    \/ \E typ \in Types : UnregisterType(typ)
    \/ \E name \in Names : NewQuery(name)
    \/ IdsOnly
    \/ Count
    \/ Run
    \/ \E in \in {"[]*Person", "[]*Pet"} : Scan(in)

SpecRegistry == InitRegistry /\ [][NextRegistry]_vars

-----------------------------------------------------------------------------
(* SpecIntersect: one call of orderedIntersectStrings on two lists of ids, *)
(* with and without repeated ids.                                          *)

ListElements == {IdOf(1), IdOf(2), IdOf(3), IdOf(4)}

Lists == UNION {[1..n -> ListElements] : n \in 0..MaxListLen}

InitIntersect ==
    /\ InitRegistered
    /\ db = Saved({})
    /\ q = newQuery("Person")
    /\ ret = RetNewQuery
    /\ ev \in {[pc |-> "call", first |-> first, second |-> second, results |-> <<>>] :
                first \in Lists, second \in Lists}

\* the call: results is a new slice, first and second are only read
Intersect ==
    /\ ev.pc = "call"
    /\ ev' = [ev EXCEPT !.pc = "return",
                        !.results = orderedIntersectStrings(ev.first, ev.second)]
    /\ UNCHANGED <<typeToName, nameToType, modelSpecs, db, q, ret>>

NextIntersect == Intersect

SpecIntersect == InitIntersect /\ [][NextIntersect]_vars

-----------------------------------------------------------------------------
(* SpecAlpha: filters on the alpha index of Name, on every index of up to  *)
(* MaxAlphaPeople records whose names are "a", "b" or "bc".                *)

AlphaValues == {<<97>>, <<98>>, <<98, 99>>}

\* the i-th record saved, with another name
AlphaPerson(i, name) == [Person(i) EXCEPT !.Name = name]

AlphaDatabases ==
    UNION {{Saved({AlphaPerson(i, names[i]) : i \in 1..n}) : names \in [1..n -> AlphaValues]} :
            n \in 0..MaxAlphaPeople}

AlphaFilters == {<<<<"Name", op>>, StringValue(v)>> : op \in Operators, v \in AlphaValues}

InitAlpha ==
    /\ InitRegistered
    /\ ev = Idle
    /\ db \in AlphaDatabases
    /\ q = newQuery("Person")
    /\ ret = RetNewQuery

NextAlpha ==
    \/ NewQuery("Person")
    \/ \E a \in AlphaFilters : Filter(a[1], a[2])
    \/ IdsOnly

SpecAlpha == InitAlpha /\ [][NextAlpha]_vars

-----------------------------------------------------------------------------
(* SpecConcurrent: one alpha filter evaluated round trip by round trip     *)
(* (the transaction of getAlphaRanks, then the ZRANGE), while other        *)
(* clients save and delete records of the same model.  A transaction is    *)
(* one step: the store runs its commands in the order they were queued,    *)
(* with no command of another client between them.                         *)

\* the member of the alpha index z that belongs to the record id
memberOfId(z, id) == {x \in z : extractModelIdFromAlphaIndexValue(x.member) = id}

\* another client saves the record r
Save(d, r) ==
    [ all    |-> d.all \cup {r.id},
      hashes |-> d.hashes \cup {r.id},
      failing |-> d.failing,
      Age    |-> ZADD(d.Age, r.Age, r.id),
      Active |-> ZADD(d.Active, boolToInt(r.Active), r.id),
      Name   |-> ZADD(d.Name \ memberOfId(d.Name, r.id), 0, AlphaMember(r.Name, r.id)) ]

\* another client deletes the record id
Delete(d, id) ==
    [ all    |-> d.all \ {id},
      hashes |-> d.hashes \ {id},
      failing |-> d.failing,
      Age    |-> ZREM(d.Age, {id}),
      Active |-> ZREM(d.Active, {id}),
      Name   |-> d.Name \ memberOfId(d.Name, id) ]

ClientSave(i, name) ==
    /\ IdOf(i) \notin db.all
    /\ db' = Save(db, AlphaPerson(i, name))
    /\ UNCHANGED <<typeToName, nameToType, modelSpecs, q, ret, ev>>

ClientDelete(i) ==
    /\ IdOf(i) \in db.all
    /\ db' = Delete(db, IdOf(i))
    /\ UNCHANGED <<typeToName, nameToType, modelSpecs, q, ret, ev>>

\* filter.getIds on an alpha index, first round trip: the transaction of
\* getAlphaRanks
AlphaRanks(f) ==
    /\ ev.pc \in {"idle", "done"}
    /\ LET r == getAlphaRanks(db[f.redisName], f.filterValue)
       IN  /\ db' = [db EXCEPT ![f.redisName] = r.z]
           /\ ev' = [pc |-> "ranked", f |-> f, beforeRank |-> r.beforeRank,
                     afterRank |-> r.afterRank, ids |-> <<>>]
    /\ UNCHANGED <<typeToName, nameToType, modelSpecs, q, ret>>

\* filter.getIds on an alpha index, second round trip: the ZRANGE and the
\* decoding of its reply (for "!=" the transaction of the two ZRANGEs)
AlphaRange ==
    /\ ev.pc = "ranked"
    /\ ev' = [ev EXCEPT !.pc = "done",
                        !.ids = getIdsAlphaRanked(ev.f, FALSE, ev.beforeRank, ev.afterRank,
                                                  db[ev.f.redisName], db).ids]
    /\ UNCHANGED <<typeToName, nameToType, modelSpecs, db, q, ret>>

\* the filters Filter("Name <op>", v) stores in a query on Person
ConcurrentFilters ==
    {FilterQuery([zeroQuery EXCEPT !.modelSpec.modelName = "Person"],
                 <<"Name", op>>, StringValue(v)).filters[1] :
        op \in {"=", "<", ">"}, v \in AlphaValues}

InitConcurrent ==
    /\ InitRegistered
    /\ ev = Idle
    /\ db = Saved({})
    /\ q = newQuery("Person")
    /\ ret = RetNewQuery

NextConcurrent ==
    \/ \E i \in 1..MaxClientPeople, name \in AlphaValues : ClientSave(i, name)
    \/ \E i \in 1..MaxClientPeople : ClientDelete(i)
    \/ \E f \in ConcurrentFilters : AlphaRanks(f)
    \/ AlphaRange

SpecConcurrent == InitConcurrent /\ [][NextConcurrent]_vars

-----------------------------------------------------------------------------
(* SpecHydrate: Run and Scan on stores where the hash of a record may be   *)
(* missing (its id is still in the indexes) or may fail to be read.        *)

HydrateIds == {IdOf(1), IdOf(2)}

HydrateDatabases ==
    {[Saved({Person(1), Person(2)}) EXCEPT !.hashes = HydrateIds \ missing,
                                           !.failing = failing] :
        missing \in SUBSET HydrateIds, failing \in SUBSET HydrateIds}

InitHydrate ==
    /\ InitRegistered
    /\ ev = Idle
    /\ db \in HydrateDatabases
    /\ q = newQuery("Person")
    /\ ret = RetNewQuery

NextHydrate ==
    \/ NewQuery("Person")
    \/ \E arg \in {Asc("Age"), Desc("Age")} : Order(arg)
    \/ \E amount \in 0..MaxLimit : Limit(amount)
    \/ \E a \in IdFilters : Filter(a[1], a[2])
    \/ IdsOnly
    \/ Run
    \/ Scan("[]*Person")

SpecHydrate == InitHydrate /\ [][NextHydrate]_vars

-----------------------------------------------------------------------------
(* SpecExclude: the finishers on queries with excluded fields, the last    *)
(* field of the model and others.                                          *)

ExcludedFields == {<<"Bio">>, <<"Age">>, <<"Name", "Age">>}

NextExclude ==
    \/ NewQuery("Person")
    \/ \E fields \in ExcludedFields : Exclude(fields)
    \/ \E amount \in 0..MaxLimit : Limit(amount)
    \/ IdsOnly
    \/ Count
    \/ Run
    \/ Scan("[]*Person")

SpecExclude == Init /\ [][NextExclude]_vars

-----------------------------------------------------------------------------
(* SpecById: queries with filters on Id, for the id of the first record    *)
(* and for an id no record has, with and without an order.                 *)

ByIdFilters == {<<<<"Id", "=">>, StringValue(id)>> : id \in {IdOf(1), IdOf(0)}}

NextById ==
    \/ NewQuery("Person")
    \/ \E arg \in {Asc("Age"), Desc("Age"), Asc("Name"), Desc("Name")} : Order(arg)
    \/ \E amount \in 0..MaxLimit : Limit(amount)
    \/ \E a \in ByIdFilters : Filter(a[1], a[2])
    \/ IdsOnly

SpecById == InitEval /\ [][NextById]_vars

-----------------------------------------------------------------------------
(* Properties of the builder, checked under Spec.                          *)

Finishers == {"IdsOnly", "Count", "Run", "Scan"}

NoResult == ret.ids = <<>> /\ ret.models = <<>> /\ ret.n = 0

\* C1: once a call has recorded an error on the query, no later call on the
\* same query changes the recorded error, and every finisher returns exactly
\* that error and no result.
C1_StickyFirstError ==
    [][(q.err # "" /\ ret'.op # "NewQuery") =>
            /\ q'.err = q.err
            /\ (ret'.op \in Finishers =>
                    ret'.err = q.err /\ ret'.ids = <<>> /\ ret'.models = <<>> /\ ret'.n = 0)]_vars

\* a finisher has returned the Include/Exclude conflict although an Order on
\* an unindexed field, which records an error of its own, was called after it
C1_Witness ==
    /\ ret.op \in Finishers
    /\ ret.err = ErrIncludeExclude
    /\ q.order.fieldName = "Bio"
    /\ NoResult

\* C2 as claimed: once the sticky error is set, a modifier leaves filters,
\* order, limit, offset, includes and excludes as they were.
C2_NoOpAfterError ==
    [][(q.err # "" /\ ret'.op = "modifier") =>
            /\ q'.filters = q.filters
            /\ q'.order = q.order
            /\ q'.limit = q.limit
            /\ q'.offset = q.offset
            /\ q'.includes = q.includes
            /\ q'.excludes = q.excludes]_vars

OrderErrors == {ErrOrderTwice, ErrOrderNotIndexed, ErrOrderNoField}

\* C3 as claimed: once an order is set no modifier changes it, and an Order
\* call that records an error leaves the order as it was.
C3_OnlyOneOrder ==
    [][ret'.op = "modifier" =>
            /\ (q.order.fieldName # "" => q'.order = q.order)
            /\ ((q.err = "" /\ q'.err \in OrderErrors) => q'.order = q.order)]_vars

IncludeCall == \E fields \in IncludeArgs : Include(fields)

ExcludeCall == \E fields \in ExcludeArgs : Exclude(fields)

C4_Inv == ~(Len(q.includes) > 0 /\ Len(q.excludes) > 0)

\* C4: includes and excludes are never both non-empty; an Include on a
\* query with excludes and an Exclude on a query with includes add no field
\* to either list and leave the query with an error, which is the
\* Include/Exclude conflict when no error was recorded before.
C4_IncludeExcludeExclusive ==
    /\ []C4_Inv
    /\ [][((IncludeCall /\ Len(q.excludes) > 0) \/ (ExcludeCall /\ Len(q.includes) > 0)) =>
            /\ q'.includes = q.includes
            /\ q'.excludes = q.excludes
            /\ q'.err = (IF q.err = "" THEN ErrIncludeExclude ELSE q.err)]_vars

\* an Exclude was called on a query with includes
C4_Witness ==
    /\ q.err = ErrIncludeExclude
    /\ Len(q.includes) > 0
    /\ Len(q.excludes) = 0
    /\ ret.op = "modifier"

-----------------------------------------------------------------------------
(* Properties of the evaluation, checked under SpecEval (C7: under         *)
(* SpecUnfiltered).  The database                                          *)
(* holds the records Person(1) .. Person(n); what a record's fields are is *)
(* read from the record, not from the indexes.                             *)

RecordOf(id) == Person(CHOOSE i \in 1..MaxPeople : IdOf(i) = id)

\* a comparison, given whether the left side is less than / equal to the right
Holds(filterType, lt, eq) ==
    CASE filterType = "equal" -> eq
      [] filterType = "notEqual" -> ~eq
      [] filterType = "less" -> lt
      [] filterType = "greater" -> ~lt /\ ~eq
      [] filterType = "lessOrEqual" -> lt \/ eq
      [] filterType = "greaterOrEqual" -> ~lt

\* the record with this id satisfies the filter
Matches(id, f) ==
    IF f.byId THEN id = f.filterValue
    ELSE /\ id \in db.all
         /\ LET x == RecordOf(id)[f.fieldName]
                v == f.filterValue
            IN  CASE f.indexType = "indexNumeric" -> Holds(f.filterType, x < v, x = v)
                  [] f.indexType = "indexBoolean" ->
                        Holds(f.filterType, boolToInt(x) < boolToInt(v), x = v)
                  [] f.indexType = "indexAlpha" -> Holds(f.filterType, StrLess(x, v), x = v)

MatchesAll(id) == \A k \in 1..Len(q.filters) : Matches(id, q.filters[k])

\* the call that returned ret was made on the query q as it is now (a
\* modifier resets ret, a finisher leaves q alone)
Returned(op) == ret.op = op /\ q.err = ""

\* C5 as claimed: a finisher on a query with an offset and no order returns
\* an error and no ids, with or without filters.
C5_OffsetWithoutOrder ==
    (ret.op \in Finishers /\ q.offset > 0 /\ q.order.fieldName = "") =>
        (ret.err # "" /\ NoResult)

\* C6 as claimed: on a query with filters Count returns the length of the
\* list IdsOnly returns.
C6_FilteredCount ==
    (Returned("Count") /\ Len(q.filters) > 0) =>
        \A r \in GetIds(q, db) : ret.err = r.err /\ ret.n = Len(r.ids)

\* the number of ids in the index an unfiltered query reads
IndexSize == IF q.order.fieldName = "" THEN Cardinality(db.all)
             ELSE Cardinality(db[q.order.redisName])

NoAlphaFilter == \A k \in 1..Len(q.filters) : q.filters[k].indexType # "indexAlpha"

\* C8 as claimed, for the filters on numeric fields and on Id: IdsOnly
\* returns only ids that match every filter of the query and, without limit
\* and offset, every id that matches them all.
C8_AndOfAllFilters ==
    (Returned("IdsOnly") /\ ret.err = "" /\ Len(q.filters) > 0 /\ NoAlphaFilter) =>
        /\ \A id \in SeqToSet(ret.ids) : MatchesAll(id)
        /\ (q.limit = 0 /\ q.offset = 0) =>
                \A id \in db.all : MatchesAll(id) => id \in SeqToSet(ret.ids)

\* a comes before b in the order o
Before(a, b, o) ==
    LET x == RecordOf(a)[o.fieldName]
        y == RecordOf(b)[o.fieldName]
        lt == IF o.indexType = "indexAlpha" THEN StrLess(x, y) ELSE x < y
        gt == IF o.indexType = "indexAlpha" THEN StrLess(y, x) ELSE y < x
    IN  IF o.orderType = "ascending" THEN lt ELSE gt

SortedBy(ids, o) == \A i, j \in 1..Len(ids) : i < j => ~Before(ids[j], ids[i], o)

\* s can be had from t by dropping elements
RECURSIVE IsSubsequence(_, _)
IsSubsequence(s, t) ==
    IF s = <<>> THEN TRUE
    ELSE IF t = <<>> THEN FALSE
    ELSE IF Head(s) = Head(t) THEN IsSubsequence(Tail(s), Tail(t))
    ELSE IsSubsequence(s, Tail(t))

AnchorOf(l) == IF l.stop THEN <<>> ELSE primaryIds(q, l.idSets, l.db)

\* the list getIdsWithFilters orders its result by
Anchor == AnchorOf(filterLoop(q, 1, <<>>, db))

\* C9 as claimed: with an order and filters, the ids returned are sorted by
\* the order field in the declared direction and are a subsequence of the
\* anchor list.
C9_DeclaredSort ==
    (Returned("IdsOnly") /\ ret.err = "" /\ Len(q.filters) > 0 /\ q.order.fieldName # "") =>
        /\ SortedBy(ret.ids, q.order)
        /\ IsSubsequence(ret.ids, Anchor)

\* C10 as claimed, for the queries without a filter on an alpha index: with a
\* limit n > 0 IdsOnly returns at most n ids.
C10_LimitIsUpperBound ==
    (Returned("IdsOnly") /\ ret.err = "" /\ q.limit > 0 /\ NoAlphaFilter) =>
        Len(ret.ids) <= q.limit

-----------------------------------------------------------------------------
(* Properties of the helpers, checked under SpecIntersect.                 *)

\* the positions of first whose element occurs in second
CommonPositions(first, second) ==
    {i \in 1..Len(first) : \E j \in 1..Len(second) : second[j] = first[i]}

\* C11: orderedIntersectStrings returns the elements of first that occur in
\* second, each as often as it is in first and in first's order, and leaves
\* first and second as they were.
C11_OrderedIntersect ==
    [][ev.pc = "call" =>
            /\ ev'.first = ev.first
            /\ ev'.second = ev.second
            /\ IsSubsequence(ev'.results, ev.first)
            /\ \A k \in 1..Len(ev'.results) : ev'.results[k] \in SeqToSet(ev.second)
            /\ Len(ev'.results) = Cardinality(CommonPositions(ev.first, ev.second))]_vars

\* [3,1,4] with [4,1,2] has given [1,4]
C11_Witness ==
    /\ ev.pc = "return"
    /\ ev.first = <<IdOf(3), IdOf(1), IdOf(4)>>
    /\ ev.second = <<IdOf(4), IdOf(1), IdOf(2)>>
    /\ ev.results = <<IdOf(1), IdOf(4)>>

-----------------------------------------------------------------------------
(* Properties of the alpha filters, checked under SpecAlpha.  The value of *)
(* a record is read from its member "<value> <id>" of the index; no filter *)
(* of SpecAlpha changes the index.                                         *)

\* the position of the last space of a member
LastSpace(member) ==
    CHOOSE i \in 1..Len(member) :
        member[i] = SP /\ \A j \in (i + 1)..Len(member) : member[j] # SP

AlphaValueOf(member) == SubSeq(member, 1, LastSpace(member) - 1)

AlphaIdOf(member) == SubSeq(member, LastSpace(member) + 1, Len(member))

\* the ids of the members of z whose value compares to v as filterType
\* says, in the order of the index
AlphaExpected(z, filterType, v) ==
    LET hit == SelectSeq(ZSorted(z), LAMBDA m :
                    Holds(filterType, StrLess(AlphaValueOf(m), v), AlphaValueOf(m) = v))
    IN  [i \in 1..Len(hit) |-> AlphaIdOf(hit[i])]

\* IdsOnly has returned for a query with no order and one filter, which is
\* the alpha filter of this type
AlphaReturned(filterType) ==
    /\ Returned("IdsOnly")
    /\ q.order.fieldName = ""
    /\ Len(q.filters) = 1
    /\ q.filters[1].indexType = "indexAlpha"
    /\ q.filters[1].filterType = filterType

\* C12 as claimed: the filter "Name =" v returns the ids of the records
\* whose name is v, in the order of the index, and no other id.
C12_AlphaEqual ==
    AlphaReturned("equal") =>
        ret.err = "" /\ ret.ids = AlphaExpected(db.Name, "equal", q.filters[1].filterValue)

\* C13 as claimed: the filter "Name <" v returns the ids of the records
\* whose name sorts before v, and no other id.
C13_AlphaLess ==
    AlphaReturned("less") =>
        ret.err = "" /\ ret.ids = AlphaExpected(db.Name, "less", q.filters[1].filterValue)

\* C14 as claimed: the filter "Name >" v returns the ids of the records
\* whose name sorts after v, and no other id.
C14_AlphaGreater ==
    AlphaReturned("greater") =>
        ret.err = "" /\ ret.ids = AlphaExpected(db.Name, "greater", q.filters[1].filterValue)

-----------------------------------------------------------------------------
(* Properties of the evaluation among other clients, checked under         *)
(* SpecConcurrent.                                                         *)

\* every member of the alpha index is a "<value> <id>" of a saved record:
\* what any client reads from the index holds no sentinel
NoSentinel ==
    \A x \in db.Name :
        /\ \E i \in 1..Len(x.member) : x.member[i] = SP
        /\ extractModelIdFromAlphaIndexValue(x.member) \in db.all

\* the number of members of z that sort before the string s
MembersBefore(z, s) == Cardinality({x \in z : StrLess(x.member, s)})

-----------------------------------------------------------------------------
(* Properties of the hydration, checked under SpecHydrate.                 *)

\* Run or Scan has returned for the query q as it is, which has no error
Hydrated == ret.op \in {"Run", "Scan"} /\ q.err = ""

\* C16 as claimed: when the load of one of the ids fails with an error that
\* is not key-not-found, Run and Scan return that error and the results
\* hold no model for that id; when the only failures are key-not-found,
\* they return no error and the models of the other ids.
C16_HydrationFailureAborts ==
    Hydrated =>
        IF \E id \in SeqToSet(ret.ids) : id \in db.failing
        THEN /\ ret.err = ErrRedis
             /\ \A id \in SeqToSet(ret.models) : id \notin db.failing
        ELSE /\ ret.err = ""
             /\ ret.models = SelectSeq(ret.ids, LAMBDA id : id \in db.hashes)

-----------------------------------------------------------------------------
(* Properties of the finishers, checked under SpecExclude.                 *)

\* C17 as claimed: a finisher changes neither the query nor the field names
\* of a registered model.
C17_FinishersReadOnly ==
    [][ret'.op \in Finishers => (q' = q /\ modelSpecs' = modelSpecs)]_vars

-----------------------------------------------------------------------------
(* Properties of the registry, checked under SpecRegistry.                 *)

\* C18 as claimed: NewQuery(name) records the not-registered error exactly
\* when name is not the name of a registered type, and a finisher on a
\* query with that error returns it.
C18_NewQueryUnregistered ==
    /\ [][\A name \in Names :
            NewQuery(name) =>
                (q'.err = ErrModelNameNotRegistered <=> name \notin DOMAIN nameToType)]_vars
    /\ [](ret.op \in Finishers /\ q.err = ErrModelNameNotRegistered
            => ret.err = ErrModelNameNotRegistered)

\* the type is no pointer to a struct
BadSchema(typ) == typ \in {"Person", "*int"}

\* the struct has a tag compileModelSpec rejects
BadTag(typ) == typ = "*Bad"

\* C19: Register returns an error and leaves the three maps as they were
\* when the type is already registered, the name is already registered, the
\* spec does not compile or the argument is no pointer to a struct;
\* otherwise it returns nil, adds the pair (type, name) to typeToName and
\* nameToType and puts the spec of the type under name, and changes no
\* other entry.
C19_RegisterUniqueness ==
    [][\A typ \in Types, name \in Names :
        Register(typ, name) =>
            IF \/ typ \in DOMAIN typeToName
               \/ name \in DOMAIN nameToType
               \/ BadTag(typ)
               \/ BadSchema(typ)
            THEN /\ ret'.err # ""
                 /\ typeToName' = typeToName
                 /\ nameToType' = nameToType
                 /\ modelSpecs' = modelSpecs
            ELSE /\ ret'.err = ""
                 /\ DOMAIN typeToName' = DOMAIN typeToName \cup {typ}
                 /\ DOMAIN nameToType' = DOMAIN nameToType \cup {name}
                 /\ DOMAIN modelSpecs' = DOMAIN modelSpecs \cup {name}
                 /\ typeToName'[typ] = name
                 /\ nameToType'[name] = typ
                 /\ modelSpecs'[name].modelType = typ
                 /\ \A t \in DOMAIN typeToName : typeToName'[t] = typeToName[t]
                 /\ \A n \in DOMAIN nameToType : nameToType'[n] = nameToType[n]
                 /\ \A n \in DOMAIN modelSpecs \ {name} : modelSpecs'[n] = modelSpecs[n]]_vars

\* Register has refused a name that is taken, for a type that is not
C19_Witness ==
    /\ ret.op = "Register"
    /\ ret.err = ErrNameAlreadyRegistered
    /\ DOMAIN nameToType = {"Person"}
    /\ nameToType["Person"] = "*Pet"

-----------------------------------------------------------------------------
(* Properties of the id filter, checked under SpecById.                    *)

\* C20: for a filter on Id with the id x, filter.getIds returns the list
\* [x] and no error and leaves the store alone, on every store and with
\* every order; IdsOnly on a query with that one filter and no order
\* returns [x], whether or not a record has the id.
C20_IdFilter ==
    /\ \A k \in 1..Len(q.filters) :
            q.filters[k].byId =>
                \A d \in Databases :
                    getIds(q.filters[k], q.order, d) =
                        [ids |-> <<q.filters[k].filterValue>>, err |-> "", db |-> d]
    /\ (Returned("IdsOnly") /\ Len(q.filters) = 1 /\ q.order.fieldName = "") =>
            (ret.err = "" /\ ret.ids = <<q.filters[1].filterValue>>)

\* IdsOnly has returned the id of a filter on Id from an empty store
C20_Witness ==
    /\ Returned("IdsOnly")
    /\ Len(q.filters) = 1
    /\ q.filters[1].byId
    /\ q.order.fieldName = ""
    /\ db.all = {}
    /\ ret.ids = <<IdOf(1)>>

-----------------------------------------------------------------------------
(* SpecExtract: one call of extractModelIdFromAlphaIndexValue on the       *)
(* member "<value> <id>" built from a value and an id.  Values and ids are *)
(* strings over a letter, a digit and the space.                           *)

ExtractBytes == {SP, 49, 97}

Strings(n) == UNION {[1..k -> ExtractBytes] : k \in 0..n}

InitExtract ==
    /\ InitRegistered
    /\ db = Saved({})
    /\ q = newQuery("Person")
    /\ ret = RetNewQuery
    /\ ev \in {[pc |-> "call", value |-> value, id |-> id, result |-> <<>>] :
                value \in Strings(MaxValueLen), id \in Strings(MaxIdLen)}

\* the call on the member of the index
Extract ==
    /\ ev.pc = "call"
    /\ ev' = [ev EXCEPT !.pc = "return",
                        !.result = extractModelIdFromAlphaIndexValue(AlphaMember(ev.value, ev.id))]
    /\ UNCHANGED <<typeToName, nameToType, modelSpecs, db, q, ret>>

NextExtract == Extract

SpecExtract == InitExtract /\ [][NextExtract]_vars

-----------------------------------------------------------------------------
(* Properties of the decoding of alpha members, checked under SpecExtract. *)

HasSpace(str) == \E i \in 1..Len(str) : str[i] = SP

\* C21: for every value, with or without spaces, and every id without a
\* space, extractModelIdFromAlphaIndexValue on "<value> <id>" returns id.
C21_AlphaRoundTrip ==
    (ev.pc = "return" /\ ~HasSpace(ev.id)) => ev.result = ev.id

\* the value "a 1" (with a space) and the id "1a" have given "1a"
C21_Witness ==
    /\ ev.pc = "return"
    /\ ev.value = <<97, SP, 49>>
    /\ ev.id = <<49, 97>>
    /\ ev.result = <<49, 97>>

-----------------------------------------------------------------------------
(* SpecPlan: filter.getIds called with each of the six operators for one   *)
(* target value on one numeric or boolean index, under one order, on every *)
(* index of up to MaxPlanPeople records with ages 0..2.                    *)

\* the i-th record saved, with another age and another flag
NumericPerson(i, age, active) == [Person(i) EXCEPT !.Age = age, !.Active = active]

PlanDatabases ==
    UNION {{Saved({NumericPerson(i, a[i][1], a[i][2]) : i \in 1..n}) :
                a \in [1..n -> (0..2) \X BOOLEAN]} : n \in 0..MaxPlanPeople}

\* the field and the value of the filter
PlanTargets ==
    {<<"Age", IntValue(v)>> : v \in 0..2} \cup {<<"Active", BoolValue(b)>> : b \in BOOLEAN}

\* a query on Person before any modifier
PlanQuery == [zeroQuery EXCEPT !.modelSpec.modelName = "Person"]

\* q.order: none, or what Order stores
PlanOrders ==
    {zeroOrder} \cup
    {OrderQuery(PlanQuery, arg).order : arg \in {Asc("Age"), Desc("Age"), Desc("Active")}}

\* the filter Filter("<field> <op>", value) stores
planFilter(field, op, value) == FilterQuery(PlanQuery, <<field, op>>, value).filters[1]

InitPlan ==
    /\ InitRegistered
    /\ db \in PlanDatabases
    /\ q = newQuery("Person")
    /\ ret = RetNewQuery
    /\ ev \in {[pc |-> "call", field |-> t[1], value |-> t[2], order |-> o, plans |-> <<>>] :
                t \in PlanTargets, o \in PlanOrders}

\* one call of filter.getIds per operator; none of them writes to the store
Plans ==
    /\ ev.pc = "call"
    /\ ev' = [ev EXCEPT !.pc = "return",
                        !.plans = [op \in Operators |->
                            LET r == getIds(planFilter(ev.field, op, ev.value), ev.order, db)
                            IN  [ids |-> r.ids, err |-> r.err]]]
    /\ UNCHANGED <<typeToName, nameToType, modelSpecs, db, q, ret>>

NextPlan == Plans

SpecPlan == InitPlan /\ [][NextPlan]_vars

-----------------------------------------------------------------------------
(* Properties of the numeric and boolean filters, checked under SpecPlan.  *)

\* the score of the member id of the sorted set z
ScoreOf(z, id) == (CHOOSE x \in z : x.member = id).score

\* the target as a score
PlanScore == IF ev.field = "Active" THEN boolToInt(ev.value.val) ELSE ev.value.val

\* the ids of the index whose score compares to the target as op says
PlanExpected(op) ==
    {x.member : x \in {y \in db[ev.field] :
        Holds(filterTypeOf(op), y.score < PlanScore, y.score = PlanScore)}}

PlanReverse == ev.order.orderType = "descending" /\ ev.order.fieldName = ev.field

\* ids is sorted by score: ascending, or descending when desc
ScoreSorted(ids, z, desc) ==
    \A i, j \in 1..Len(ids) :
        i < j => IF desc THEN ScoreOf(z, ids[i]) >= ScoreOf(z, ids[j])
                 ELSE ScoreOf(z, ids[i]) <= ScoreOf(z, ids[j])

\* C22: for every index, operator and value, a numeric or boolean filter
\* returns exactly the ids whose score satisfies the comparison (false = 0,
\* true = 1), each once, by ascending score, or by descending score when
\* its field is the descending order field.
C22_NumericBooleanExact ==
    ev.pc = "return" =>
        \A op \in Operators :
            /\ ev.plans[op].err = ""
            /\ SeqToSet(ev.plans[op].ids) = PlanExpected(op)
            /\ Len(ev.plans[op].ids) = Cardinality(PlanExpected(op))
            /\ ScoreSorted(ev.plans[op].ids, db[ev.field], PlanReverse)

\* on an index with two false records and one true one, listed by
\* descending Active: "< false" is empty, ">= false" lists the true one first
C22_Witness ==
    /\ ev.pc = "return"
    /\ ev.field = "Active" /\ ev.value.val = FALSE /\ PlanReverse
    /\ ev.plans["<"].ids = <<>>
    /\ Len(ev.plans["="].ids) = 2
    /\ Len(ev.plans[">="].ids) = 3
    /\ ScoreOf(db.Active, ev.plans[">="].ids[1]) = 1

PlanSet(op) == SeqToSet(ev.plans[op].ids)

\* C23: on every numeric index and for every value, the ids of "=", "<" and
\* ">" are pairwise disjoint and together are all the ids of the index;
\* "!=" gives the ids of "<" and ">", and ">=" the ids "<" does not give.
C23_NumericTrichotomy ==
    (ev.pc = "return" /\ ev.field = "Age") =>
        LET all == {x.member : x \in db.Age}
        IN  /\ PlanSet("=") \cap PlanSet("<") = {}
            /\ PlanSet("=") \cap PlanSet(">") = {}
            /\ PlanSet("<") \cap PlanSet(">") = {}
            /\ PlanSet("=") \cup PlanSet("<") \cup PlanSet(">") = all
            /\ PlanSet("!=") = PlanSet("<") \cup PlanSet(">")
            /\ PlanSet(">=") = all \ PlanSet("<")

\* an index with one age below, one equal to and one above the target
C23_Witness ==
    /\ ev.pc = "return"
    /\ ev.field = "Age"
    /\ Len(ev.plans["="].ids) = 1
    /\ Len(ev.plans["<"].ids) = 1
    /\ Len(ev.plans[">"].ids) = 1
    /\ Len(ev.plans["!="].ids) = 2

-----------------------------------------------------------------------------
(* The other operators of the alpha filters, checked under SpecAlpha.      *)

\* the ids filter.getIds returns on the index as it is for the filter
\* q.filters[1] with another operator
AlphaIdsFor(filterType) ==
    SeqToSet(getIds([q.filters[1] EXCEPT !.filterType = filterType], q.order, db).ids)

\* C24 as claimed: the filter "Name <=" v returns the ids of the records
\* whose name is v or sorts before v, the filter "Name >=" v those whose
\* name is v or sorts after v, and each returns the ids of the strict
\* filter together with the ids of the filter "Name =" v.
C24_AlphaInclusive ==
    /\ AlphaReturned("lessOrEqual") =>
            /\ ret.err = ""
            /\ ret.ids = AlphaExpected(db.Name, "lessOrEqual", q.filters[1].filterValue)
            /\ SeqToSet(ret.ids) = AlphaIdsFor("less") \cup AlphaIdsFor("equal")
    /\ AlphaReturned("greaterOrEqual") =>
            /\ ret.err = ""
            /\ ret.ids = AlphaExpected(db.Name, "greaterOrEqual", q.filters[1].filterValue)
            /\ SeqToSet(ret.ids) = AlphaIdsFor("greater") \cup AlphaIdsFor("equal")

\* C25 as claimed: the filter "Name !=" v returns the ids of the records
\* whose name is not v, those with a smaller name before those with a
\* greater one, and no id of a record whose name is v.
C25_AlphaNotEqual ==
    AlphaReturned("notEqual") =>
        ret.err = "" /\ ret.ids = AlphaExpected(db.Name, "notEqual", q.filters[1].filterValue)

-----------------------------------------------------------------------------
(* SpecFilters: Filter called with the arguments of Spec, accepted and     *)
(* rejected, on a query for a registered or an unregistered name, with and *)
(* without an error recorded by Order.                                     *)

NextFilters ==
    \/ \E name \in {"Person", "Ghost"} : NewQuery(name)
    \/ \E arg \in {Asc("Age"), Asc("Nope")} : Order(arg)
    \/ \E a \in FilterArgs : Filter(a[1], a[2])
    \/ IdsOnly

SpecFilters == Init /\ [][NextFilters]_vars

-----------------------------------------------------------------------------
(* Properties of the stored filters, checked under SpecFilters.            *)

\* the filter is one filterById stores
ValidIdFilter(f) ==
    /\ f.byId
    /\ f.fieldName = "Id"
    /\ f.filterType = "equal"
    /\ f.valueType = "string"

\* the filter is on an indexed field of the model, with a value of the
\* field's type
ValidFieldFilter(f) ==
    /\ ~f.byId
    /\ f.fieldName \in DOMAIN FieldIndex
    /\ f.indexType = FieldIndex[f.fieldName]
    /\ f.indexType \in {"indexNumeric", "indexBoolean", "indexAlpha"}
    /\ f.filterType \in {filterSymbols[k] : k \in DOMAIN filterSymbols}
    /\ f.valueType = FieldType[f.fieldName]

AllFiltersValid ==
    \A k \in 1..Len(q.filters) : ValidIdFilter(q.filters[k]) \/ ValidFieldFilter(q.filters[k])

-----------------------------------------------------------------------------
(* Properties of the ordered queries without filters, checked under        *)
(* SpecUnfiltered.                                                         *)

\* the id of a member of the order field's index
OrderIdOf(member) ==
    IF q.order.indexType = "indexAlpha" THEN AlphaIdOf(member) ELSE member

\* the ids of the order field's index, sorted in the declared direction
OrderSortedIds ==
    LET sorted == ZSorted(db[q.order.redisName])
        ids == [i \in 1..Len(sorted) |-> OrderIdOf(sorted[i])]
    IN  IF q.order.orderType = "descending" THEN Reverse(ids) ELSE ids

\* what is left of ids after the first offset ones, cut to limit ids when
\* limit is not 0
Window(ids, offset, limit) ==
    LET last == IF limit = 0 THEN Len(ids) ELSE Min2(offset + limit, Len(ids))
    IN  IF offset >= Len(ids) THEN <<>> ELSE SubSeq(ids, offset + 1, last)

-----------------------------------------------------------------------------
(* SpecSentinel: the two round trips of an alpha filter, one after the     *)
(* other, on every index of SpecAlpha, for targets without a space and for *)
(* the target "b 1", which is the member of a record 1 named "b".          *)

SentinelTargets == AlphaValues \cup {AlphaMember(<<98>>, IdOf(1))}

SentinelFilters ==
    {planFilter("Name", op, StringValue(v)) : op \in {"=", ">"}, v \in SentinelTargets}

InitSentinel ==
    /\ InitRegistered
    /\ ev = Idle
    /\ db \in AlphaDatabases
    /\ q = newQuery("Person")
    /\ ret = RetNewQuery

NextSentinel ==
    \/ \E f \in SentinelFilters : AlphaRanks(f)
    \/ AlphaRange

SpecSentinel == InitSentinel /\ [][NextSentinel]_vars

-----------------------------------------------------------------------------
(* Properties of the rank resolution, checked under SpecSentinel.          *)

\* C28 as claimed: the transaction of getAlphaRanks leaves in the sorted
\* set the members it found, with their scores, for every target.
C28_SentinelsLeaveIndex ==
    [][(ev.pc # "ranked" /\ ev'.pc = "ranked") => db'.Name = db.Name]_vars

-----------------------------------------------------------------------------
(* Properties of the two round trips of an alpha filter among other        *)
(* clients, checked under SpecConcurrent.                                  *)

\* the ids the filter f returns when its ranks are measured on the index as
\* it is and its range is read from the same index
AlphaInOnePiece(f) == getIds(f, zeroOrder, db).ids

\* C29 as claimed: between the measurement of the ranks and the read of the
\* range that uses them no write of another client takes effect, so the
\* range is read from the index the ranks were measured on.
C29_AlphaFilterIsolated ==
    [][ev.pc = "ranked" =>
            /\ db' = db
            /\ ev'.pc = "done"
            /\ ev'.ids = AlphaInOnePiece(ev.f)]_vars

-----------------------------------------------------------------------------
(* Consistency of the registry, checked under SpecRegistry.                *)

\* typeToName and nameToType are each other's inverse
MutuallyInverse ==
    /\ \A t \in DOMAIN typeToName :
            typeToName[t] \in DOMAIN nameToType /\ nameToType[typeToName[t]] = t
    /\ \A n \in DOMAIN nameToType :
            nameToType[n] \in DOMAIN typeToName /\ typeToName[nameToType[n]] = n

\* C30 as claimed: after any calls of Register, UnregisterName and
\* UnregisterType, typeToName[t] = n exactly when nameToType[n] = t, and the
\* names that have a model spec are the registered names.
C30_RegistryConsistent ==
    /\ MutuallyInverse
    /\ DOMAIN modelSpecs = DOMAIN nameToType

====
